---- MODULE Spec2Model ----
(***************************************************************************)
(* Secret Santa organizer (src/app/page.tsx).                              *)
(*                                                                         *)
(* Three specifications share this module:                                 *)
(*   SpecEngine  the pure function assignSecretSantas, attempt by attempt  *)
(*   SpecVerify  the verification step of createEncryptedTokensAndVerify   *)
(*               applied to valid and corrupted assignment sets            *)
(*   Spec        the Home page: its React state, its event handlers and    *)
(*               the token-generation runs in flight                       *)
(* Strings are sequences of one-character strings; JavaScript's null is    *)
(* the value Null.                                                         *)
(***************************************************************************)
EXTENDS Integers, Sequences, FiniteSets, Bags, TLC

VARIABLES
    \* ---- Home component state (page.tsx:56-61); the two form fields
    \* (page.tsx:54-55) are the inputs of AddParticipant
    participants, assignments, encryptedTokens, verification, error, sendStatus,
    \* ---- environment of the page
    cryptoAvailable,   \* window.crypto.subtle exists
    runs,              \* bag of createEncryptedTokensAndVerify calls suspended at an await
    posted,            \* sendEmails calls awaiting their fetch or their status timer
    \* ---- one call of assignSecretSantas
    eParts, ePc, attempt, eResult,
    \* ---- one evaluation of the verification step
    vParts, vRes, vPc, vOut

pageVars == <<participants, assignments, encryptedTokens, verification, error,
              sendStatus, cryptoAvailable, runs, posted>>
engineVars == <<eParts, ePc, attempt, eResult>>
verifyVars == <<vParts, vRes, vPc, vOut>>
vars == <<pageVars, engineVars, verifyVars>>

\* each of the three specifications moves its own variables only
PageOnly == UNCHANGED <<engineVars, verifyVars>>
EngineOnly == UNCHANGED <<pageVars, verifyVars>>
VerifyOnly == UNCHANGED <<pageVars, engineVars>>

\* null for the string-valued state (error, sendStatus); None / Some(v) for
\* the state that is null or an array or object
Null == "null"
None == [some |-> FALSE, val |-> <<>>]
Some(v) == [some |-> TRUE, val |-> v]
NoVerification == [some |-> FALSE, val |-> [derangement |-> FALSE, bijection |-> FALSE]]

\* ------------------------------------------------------------------ bounds
\* longest participant sequence given to the engine and to the verification;
\* their ids are drawn from as many values, so that sequences of pairwise
\* distinct ids and sequences with repeated ids both occur
MaxEngineN == 3
\* number of distinct values uid() returns on the page (it never checks the
\* ids in use, so a value can repeat)
NumIds == 2
\* longest participant list of the page
MaxParticipants == 3
\* token-generation runs suspended at the same time
MaxRuns == 2
\* sendEmails calls whose status timer has not fired yet
MaxSends == 1

\* ------------------------------------------------------- program constants
MaxAttempts == 1000

\* the values uid() can return
uid == 1..NumIds

\* ------------------------------------------------------------------ strings
NameText == <<"a", "n", "n">>
EmailText == <<"a", "@", "x">>

RECURSIVE TrimStart(_)
TrimStart(s) ==
    IF s # <<>> /\ Head(s) = " " THEN TrimStart(Tail(s)) ELSE s

RECURSIVE TrimEnd(_)
TrimEnd(s) ==
    IF s # <<>> /\ s[Len(s)] = " " THEN TrimEnd(SubSeq(s, 1, Len(s) - 1)) ELSE s

Trim(s) == TrimEnd(TrimStart(s))

\* ------------------------------------------------------------- participants
Participant(i, n, em) == [id |-> i, name |-> n, email |-> em]

People == {Participant(i, NameText, EmailText) : i \in 1..MaxEngineN}

SeqsUpTo(S, n) == UNION {[1..k -> S] : k \in 0..n}

\* ------------------------------------------------------------------ shuffle
\* [a[i], a[j]] = [a[j], a[i]]
Swap(a, i, j) == [a EXCEPT ![i] = a[j], ![j] = a[i]]

\* every array the loop of shuffle can leave when it is about to run with
\* index i (1-based; the code's i is one less) on array a
RECURSIVE ShuffleFrom(_, _)
ShuffleFrom(a, i) ==
    IF i <= 1 THEN {a}
    ELSE UNION {ShuffleFrom(Swap(a, i, j), i - 1) : j \in 1..i}

shuffle(arr) == ShuffleFrom(arr, Len(arr))

\* ------------------------------------------------------- assignSecretSantas
\* the inner for loop: no index with participants[i].id === recipients[i].id
IsDerangementOf(parts, recipients) ==
    \A i \in 1..Len(parts) : parts[i].id # recipients[i].id

\* PairUp with giver and recipient exchanged
PairUpMutSwapped(parts, recipients) ==
    [i \in 1..Len(parts) |-> [giver |-> recipients[i], recipient |-> parts[i]]]

\* participants.map((p, i) => ({ giver: p, recipient: recipients[i] }))
PairUp(parts, recipients) ==
    [i \in 1..Len(parts) |-> [giver |-> parts[i], recipient |-> recipients[i]]]

\* Rotation with the index clamped to the last element instead of wrapped
RotationMutNoWrap(parts) ==
    [i \in 1..Len(parts) |-> parts[IF i = Len(parts) THEN i ELSE i + 1]]

\* Rotation with the + 1 left out
RotationMutIdentity(parts) ==
    [i \in 1..Len(parts) |-> parts[(((i - 1) + 0) % Len(parts)) + 1]]

\* participants[(i + 1) % n], for the code's 0-based i
Rotation(parts) ==
    [i \in 1..Len(parts) |-> parts[(((i - 1) + 1) % Len(parts)) + 1]]

\* every value assignSecretSantas(parts) can return: an accepted shuffle, or
\* the rotation when each of the MaxAttempts shuffles can be rejected
assignSecretSantas(parts) ==
    IF Len(parts) < 2 THEN {<<>>}
    ELSE {PairUp(parts, r) : r \in {s \in shuffle(parts) : IsDerangementOf(parts, s)}}
         \cup (IF \E s \in shuffle(parts) : ~IsDerangementOf(parts, s)
               THEN {PairUp(parts, Rotation(parts))} ELSE {})

\* what a call has produced so far: nothing yet, or a returned array
Pending == [status |-> "pending", value |-> <<>>]
Returned(v) == [status |-> "returned", value |-> v]

EngineInit ==
    /\ eParts \in SeqsUpTo(People, MaxEngineN)
    /\ ePc = "start"
    /\ attempt = 0
    /\ eResult = Pending
    /\ participants = <<>>
    /\ assignments = None
    /\ encryptedTokens = None
    /\ verification = NoVerification
    /\ error = Null
    /\ sendStatus = Null
    /\ cryptoAvailable = FALSE
    /\ runs = EmptyBag
    /\ posted = <<>>
    /\ vParts = <<>>
    /\ vRes = <<>>
    /\ vPc = "idle"
    /\ vOut = NoVerification

\* if (n < 2) return [];
EngineEntry ==
    /\ ePc = "start"
    /\ \/ /\ Len(eParts) < 2
          /\ eResult' = Returned(<<>>)
          /\ ePc' = "done"
       \/ /\ Len(eParts) >= 2
          /\ ePc' = "loop"
          /\ UNCHANGED eResult
    /\ UNCHANGED <<eParts, attempt>>
    /\ EngineOnly

\* one iteration of the attempt loop
EngineAttempt ==
    /\ ePc = "loop"
    /\ attempt < MaxAttempts
    /\ \E recipients \in shuffle(eParts) :
          \/ /\ IsDerangementOf(eParts, recipients)
             /\ eResult' = Returned(PairUp(eParts, recipients))
             /\ ePc' = "done"
             /\ UNCHANGED attempt
          \/ /\ ~IsDerangementOf(eParts, recipients)
             /\ attempt' = attempt + 1
             /\ UNCHANGED <<ePc, eResult>>
    /\ UNCHANGED eParts
    /\ EngineOnly

\* the loop ended without a return: the rotation
EngineFallback ==
    /\ ePc = "loop"
    /\ attempt >= MaxAttempts
    /\ eResult' = Returned(PairUp(eParts, Rotation(eParts)))
    /\ ePc' = "done"
    /\ UNCHANGED <<eParts, attempt>>
    /\ EngineOnly

EngineNext == EngineEntry \/ EngineAttempt \/ EngineFallback

\* ------------------------------------------------------------- verification
\* res.every((a) => a.giver.id !== a.recipient.id)
VerifyDerangement(res) ==
    \A i \in 1..Len(res) : res[i].giver.id # res[i].recipient.id

\* VerifyBijection counting the recipient ids without the Set
VerifyBijectionMutNoSet(res, parts) == Len(res) = Len(parts)

\* new Set(res.map((a) => a.recipient.id)).size === parts.length
VerifyBijection(res, parts) ==
    Cardinality({res[i].recipient.id : i \in 1..Len(res)}) = Len(parts)

Verify(res, parts) ==
    [derangement |-> VerifyDerangement(res), bijection |-> VerifyBijection(res, parts)]

\* assignment sets over parts: one assignment per participant as giver, in
\* order, the recipients any participants of the sequence
AssignmentSetsOver(parts) ==
    {PairUp(parts, r) : r \in [1..Len(parts) -> {parts[i] : i \in 1..Len(parts)}]}

VerifyInit ==
    /\ vParts \in SeqsUpTo(People, MaxEngineN)
    /\ vRes \in AssignmentSetsOver(vParts)
    /\ vPc = "start"
    /\ vOut = NoVerification
    /\ participants = <<>>
    /\ assignments = None
    /\ encryptedTokens = None
    /\ verification = NoVerification
    /\ error = Null
    /\ sendStatus = Null
    /\ cryptoAvailable = FALSE
    /\ runs = EmptyBag
    /\ posted = <<>>
    /\ eParts = <<>>
    /\ ePc = "idle"
    /\ attempt = 0
    /\ eResult = Pending

VerifyStep ==
    /\ vPc = "start"
    /\ vOut' = Some(Verify(vRes, vParts))
    /\ vPc' = "done"
    /\ UNCHANGED <<vParts, vRes>>
    /\ VerifyOnly


\* ------------------------------------------------------------ the Home page
\* what the two inputs can hold when the form is submitted
NameInputs == {<<" ">>, <<" ", "a", "n", "n">>}
EmailInputs == {<<>>, EmailText}

ErrBothFields == "Please provide both name and email."
ErrAtLeastTwo == "Add at least 2 participants to assign Santas."
ErrTokens == "Failed to create encrypted tokens."

\* the values crypto.subtle.generateKey and crypto.getRandomValues draw
Keys == {"key"}
Nonces == {"iv"}

\* encoder.encode(a.recipient.id)
Encode(id) == [utf8 |-> id]

\* subtle.encrypt({ name: "AES-GCM", iv }, key, data)
AesGcm(key, iv, data) == [key |-> key, iv |-> iv, plaintext |-> data]

\* toBase64 of iv followed by ct
Token(iv, ct) == [base64 |-> <<iv, ct>>]

\* a call suspended at await subtle.generateKey(...)
RunAtKey(res) == [pc |-> "key", res |-> res, key |-> "none", iv |-> "none", tokens |-> <<>>]

\* the same call suspended at await subtle.encrypt(...) of item Len(tokens) + 1
RunAtEncrypt(run, key, iv, tokens) ==
    [pc |-> "encrypt", res |-> run.res, key |-> key, iv |-> iv, tokens |-> tokens]

\* the four pieces of React state the assignment and token code writes
PageState ==
    [assignments |-> assignments, encryptedTokens |-> encryptedTokens,
     verification |-> verification, error |-> error]

Commit(st) ==
    /\ assignments' = st.assignments
    /\ encryptedTokens' = st.encryptedTokens
    /\ verification' = st.verification
    /\ error' = st.error

Init ==
    /\ participants = <<>>
    /\ assignments = None
    /\ encryptedTokens = None
    /\ verification = NoVerification
    /\ error = Null
    /\ sendStatus = Null
    /\ cryptoAvailable \in BOOLEAN
    /\ runs = EmptyBag
    /\ posted = <<>>
    /\ eParts = <<>>
    /\ ePc = "idle"
    /\ attempt = 0
    /\ eResult = Pending
    /\ vParts = <<>>
    /\ vRes = <<>>
    /\ vPc = "idle"
    /\ vOut = NoVerification

\* Added without setAssignments(null)
AddedMutKeepAssignments(st) == [st EXCEPT !.error = Null]

\* setError(null) ... setAssignments(null) of a successful add
Added(st) == [st EXCEPT !.error = Null, !.assignments = None]

\* submit of the form holding nameField and emailField
addParticipant(nameField, emailField) ==
    \/ /\ Trim(nameField) = <<>> \/ Trim(emailField) = <<>>
       /\ Commit([PageState EXCEPT !.error = ErrBothFields])
       /\ UNCHANGED participants
    \/ /\ Trim(nameField) # <<>> /\ Trim(emailField) # <<>>
       /\ Len(participants) < MaxParticipants
       /\ \E id \in uid :
             participants' =
                 Append(participants, Participant(id, Trim(nameField), Trim(emailField)))
       /\ Commit(Added(PageState))

AddParticipant ==
    /\ \E nameField \in NameInputs, emailField \in EmailInputs :
          addParticipant(nameField, emailField)
    /\ UNCHANGED <<sendStatus, cryptoAvailable, runs, posted>>
    /\ PageOnly

\* prev.filter((p) => p.id !== id)
RemoveById(parts, id) == SelectSeq(parts, LAMBDA p : p.id # id)

\* a Remove button exists for every listed participant
removeParticipant ==
    /\ \E i \in 1..Len(participants) :
          participants' = RemoveById(participants, participants[i].id)
    /\ Commit([PageState EXCEPT !.assignments = None])

RemoveParticipant ==
    /\ removeParticipant
    /\ UNCHANGED <<sendStatus, cryptoAvailable, runs, posted>>
    /\ PageOnly

\* VerifyAndCheckCrypto without the Web Crypto test: reading crypto.subtle
\* throws into the catch block
VerifyAndCheckCryptoMutThrows(st, res, parts) ==
    IF ~cryptoAvailable
    THEN [st EXCEPT !.verification = Some(Verify(res, parts)), !.error = ErrTokens]
    ELSE [st EXCEPT !.verification = Some(Verify(res, parts))]

\* createEncryptedTokensAndVerify(res, parts) up to the call of generateKey:
\* the verification is published, and without Web Crypto the tokens are
\* cleared and the call returns
VerifyAndCheckCrypto(st, res, parts) ==
    IF ~cryptoAvailable
    THEN [st EXCEPT !.verification = Some(Verify(res, parts)), !.encryptedTokens = None]
    ELSE [st EXCEPT !.verification = Some(Verify(res, parts))]

\* with Web Crypto the call goes on to await generateKey
StartRun(res) ==
    IF ~cryptoAvailable
    THEN UNCHANGED runs
    ELSE /\ BagCardinality(runs) < MaxRuns
         /\ runs' = runs (+) SetToBag({RunAtKey(res)})

\* setError(null); setAssignments(res); setEncryptedTokens(null); setVerification(null)
Assigned(st, res) ==
    [st EXCEPT !.error = Null, !.assignments = Some(res), !.encryptedTokens = None,
               !.verification = NoVerification]

handleAssign ==
    \/ /\ Len(participants) < 2
       /\ Commit([PageState EXCEPT !.error = ErrAtLeastTwo])
       /\ UNCHANGED runs
    \/ /\ Len(participants) >= 2
       /\ \E res \in assignSecretSantas(participants) :
             /\ Commit(VerifyAndCheckCrypto(Assigned(PageState, res), res, participants))
             /\ StartRun(res)

HandleAssign ==
    /\ handleAssign
    /\ UNCHANGED <<participants, sendStatus, cryptoAvailable, posted>>
    /\ PageOnly

\* the Hide tokens / (Re)create encrypted tokens button, rendered while
\* assignments is not null
ToggleTokens ==
    /\ assignments.some
    /\ \/ /\ encryptedTokens.some
          /\ Commit([PageState EXCEPT !.encryptedTokens = None])
          /\ UNCHANGED runs
       \/ /\ ~encryptedTokens.some
          /\ Commit(VerifyAndCheckCrypto(PageState, assignments.val, participants))
          /\ StartRun(assignments.val)
    /\ UNCHANGED <<participants, sendStatus, cryptoAvailable, posted>>
    /\ PageOnly

\* ------------------------------------------- token-generation continuations
\* the runs left when run has returned
Without(run) == runs (-) SetToBag({run})

\* const iv = ...; const data = encoder.encode(a.recipient.id); the value
\* subtle.encrypt resolves to, combined with iv and base64-encoded
TokenFor(run) ==
    Token(run.iv, AesGcm(run.key, run.iv, Encode(run.res[Len(run.tokens) + 1].recipient.id)))

\* Pushed putting the token in front (unshift)
PushedMutUnshift(tokens, t) == <<t>> \o tokens

\* tokens.push(...)
Pushed(tokens, t) == Append(tokens, t)

\* setEncryptedTokens(tokens)
Published(st, tokens) == [st EXCEPT !.encryptedTokens = Some(tokens)]

\* Caught also publishing the tokens made before the failure
CaughtMutPartial(st, partial) ==
    [st EXCEPT !.error = ErrTokens, !.encryptedTokens = Some(partial)]

\* catch (e) { console.error(e); setError("Failed to create encrypted tokens."); }
Caught(st, partial) == [st EXCEPT !.error = ErrTokens]

\* await subtle.generateKey resolves; the loop draws the first iv and awaits
\* the first encrypt (with no assignment the empty token list is published)
KeyGenerated ==
    /\ \E run \in BagToSet(runs) :
          /\ run.pc = "key"
          /\ IF run.res = <<>>
             THEN /\ runs' = Without(run)
                  /\ Commit(Published(PageState, <<>>))
             ELSE /\ \E key \in Keys, iv \in Nonces :
                        runs' = Without(run) (+) SetToBag({RunAtEncrypt(run, key, iv, <<>>)})
                  /\ Commit(PageState)
    /\ UNCHANGED <<participants, sendStatus, cryptoAvailable, posted>>
    /\ PageOnly

\* await subtle.generateKey rejects
KeyGenFailed ==
    /\ \E run \in BagToSet(runs) :
          /\ run.pc = "key"
          /\ runs' = Without(run)
          /\ Commit(Caught(PageState, run.tokens))
    /\ UNCHANGED <<participants, sendStatus, cryptoAvailable, posted>>
    /\ PageOnly

\* await subtle.encrypt resolves: the token is pushed; the loop goes on to the
\* next item, or ends and the tokens are published
Encrypted ==
    /\ \E run \in BagToSet(runs) :
          /\ run.pc = "encrypt"
          /\ LET tokens == Pushed(run.tokens, TokenFor(run))
             IN  IF Len(tokens) < Len(run.res)
                 THEN /\ \E iv \in Nonces :
                            runs' = Without(run)
                                      (+) SetToBag({RunAtEncrypt(run, run.key, iv, tokens)})
                      /\ Commit(PageState)
                 ELSE /\ runs' = Without(run)
                      /\ Commit(Published(PageState, tokens))
    /\ UNCHANGED <<participants, sendStatus, cryptoAvailable, posted>>
    /\ PageOnly

\* await subtle.encrypt rejects
EncryptFailed ==
    /\ \E run \in BagToSet(runs) :
          /\ run.pc = "encrypt"
          /\ runs' = Without(run)
          /\ Commit(Caught(PageState, run.tokens))
    /\ UNCHANGED <<participants, sendStatus, cryptoAvailable, posted>>
    /\ PageOnly

\* ---------------------------------------------------------------- sendEmails
StatusSending == "Sending emails via server..."
StatusFailed == "Failed"
StatusSent == "Sent"
StatusNetworkError == "Network error while sending emails. Check the console for details."

\* body: JSON.stringify({ assignments })
RequestBody(a) == [assignments |-> a.val]

RemoveAt(s, k) == SubSeq(s, 1, k - 1) \o SubSeq(s, k + 1, Len(s))

\* the click: if (!assignments) return; the status is set and
\* RequestBody(assignments) is posted
sendEmails ==
    /\ assignments.some
    /\ Len(posted) < MaxSends
    /\ sendStatus' = StatusSending
    /\ posted' = Append(posted, "fetch")

SendEmails ==
    /\ sendEmails
    /\ UNCHANGED <<participants, assignments, encryptedTokens, verification, error,
                   cryptoAvailable, runs>>
    /\ PageOnly

\* the fetch settles (response not ok, response ok, or a rejection) and the
\* timer that clears the status is set
FetchSettled ==
    /\ \E k \in 1..Len(posted) :
          /\ posted[k] = "fetch"
          /\ posted' = [posted EXCEPT ![k] = "timer"]
    /\ \E status \in {StatusFailed, StatusSent, StatusNetworkError} : sendStatus' = status
    /\ UNCHANGED <<participants, assignments, encryptedTokens, verification, error,
                   cryptoAvailable, runs>>
    /\ PageOnly

\* setTimeout(() => setSendStatus(null), 8000)
StatusTimer ==
    /\ \E k \in 1..Len(posted) :
          /\ posted[k] = "timer"
          /\ posted' = RemoveAt(posted, k)
    /\ sendStatus' = Null
    /\ UNCHANGED <<participants, assignments, encryptedTokens, verification, error,
                   cryptoAvailable, runs>>
    /\ PageOnly

\* ----------------------------------------------------------- specifications
Next ==
    \/ AddParticipant
    \/ RemoveParticipant
    \/ HandleAssign
    \/ ToggleTokens
    \/ KeyGenerated
    \/ KeyGenFailed
    \/ Encrypted
    \/ EncryptFailed
    \/ SendEmails
    \/ FetchSettled
    \/ StatusTimer

Spec == Init /\ [][Next]_vars

SpecEngine == EngineInit /\ [][EngineNext]_vars

SpecVerify == VerifyInit /\ [][VerifyStep]_vars

\* ------------------------------------------------------------------ claims
\* the ids of the sequence are pairwise distinct
DistinctIds(parts) ==
    \A i, j \in 1..Len(parts) : i # j => parts[i].id # parts[j].id

\* the id a token was made from
TokenSource(t) == t.base64[2].plaintext.utf8

\* the assignment set a finished call of assignSecretSantas returned
Returns == eResult.value

\* how often id is the recipient id in assignment set res
TimesRecipient(res, id) == Cardinality({i \in 1..Len(res) : res[i].recipient.id = id})

RotationOf(parts) == PairUp(parts, Rotation(parts))

\* the stepwise call returns only values of the operator assignSecretSantas,
\* which the page's handleAssign draws from
EngineAgreesWithOperator ==
    ePc = "done" => Returns \in assignSecretSantas(eParts)

\* C1: with pairwise distinct ids, no assignment of a returned set has
\* giver.id = recipient.id, on the accepted-candidate path and on the
\* rotation-fallback path alike.
C1_NoSelfAssignment ==
    (ePc = "done" /\ DistinctIds(eParts)) =>
        \A i \in 1..Len(Returns) : Returns[i].giver.id # Returns[i].recipient.id

\* the rotation fallback has returned for a longest sequence of distinct ids
C1_Witness ==
    /\ ePc = "done"
    /\ attempt = MaxAttempts
    /\ DistinctIds(eParts)
    /\ Len(eParts) = MaxEngineN
    /\ Len(Returns) = MaxEngineN

\* C2: with n >= 2 pairwise distinct ids, every giver id occurs exactly once
\* among the recipient ids of the returned set, and no other id occurs.
C2_RecipientsArePermutation ==
    (ePc = "done" /\ DistinctIds(eParts) /\ Len(eParts) >= 2) =>
        /\ \A p \in 1..Len(eParts) : TimesRecipient(Returns, eParts[p].id) = 1
        /\ \A i \in 1..Len(Returns) :
              \E p \in 1..Len(eParts) : Returns[i].recipient.id = eParts[p].id

\* a shuffled candidate that is not the rotation was accepted at once
C2_Witness ==
    /\ ePc = "done"
    /\ attempt = 0
    /\ DistinctIds(eParts)
    /\ Len(eParts) = MaxEngineN
    /\ Len(Returns) = MaxEngineN
    /\ Returns # RotationOf(eParts)

\* C3: the call never makes more than MaxAttempts attempts and is never stuck
\* before it returns; what it returns has one assignment per participant, the
\* i-th giver being participants[i], when n >= 2, and is empty when n < 2.
C3_ReturnsShape ==
    /\ attempt <= MaxAttempts
    /\ ePc # "done" => ENABLED EngineNext
    /\ ePc = "done" =>
          /\ eResult.status = "returned"
          /\ IF Len(eParts) >= 2
             THEN /\ Len(Returns) = Len(eParts)
                  /\ \A i \in 1..Len(eParts) : Returns[i].giver = eParts[i]
             ELSE Returns = <<>>

\* the call returned a candidate accepted on its last attempt
C3_Witness ==
    /\ ePc = "done"
    /\ attempt = MaxAttempts - 1
    /\ Len(eParts) = MaxEngineN
    /\ Len(Returns) = MaxEngineN

\* C4: given two participants with the same id, the engine signals an
\* invalid-input error and returns no assignment set.
C4_DuplicateIdsRejected ==
    (ePc = "done" /\ ~DistinctIds(eParts)) => eResult.status = "invalid-input"

\* C5: the verification's derangement is true exactly when no assignment has
\* giver.id = recipient.id, and its bijection is true exactly when every
\* participant id occurs exactly once among the recipient ids, for valid and
\* for corrupted assignment sets.
C5_VerificationAgrees ==
    vPc = "done" =>
        /\ vOut.some
        /\ vOut.val.derangement = ~(\E i \in 1..Len(vRes) : vRes[i].giver.id = vRes[i].recipient.id)
        /\ vOut.val.bijection =
              (\A p \in 1..Len(vParts) : TimesRecipient(vRes, vParts[p].id) = 1)

\* a corrupted set was verified: no self-assignment, one participant twice
\* the recipient
C5_Witness ==
    /\ vPc = "done"
    /\ DistinctIds(vParts)
    /\ Len(vParts) = MaxEngineN
    /\ vOut.val.derangement
    /\ ~vOut.val.bijection

\* the tokens are those of assignment set res, index by index
TokensOf(tokens, res) ==
    /\ Len(tokens) = Len(res)
    /\ \A i \in 1..Len(res) : TokenSource(tokens[i]) = res[i].recipient.id

\* C6: the step that ends a run whose key generation and encryptions all
\* succeeded publishes exactly one token per assignment of the run's set,
\* token i made from the recipient id of assignment i.
C6_TokensIndexAligned ==
    [][\A run \in BagToSet(runs) :
          (run.pc = "encrypt" /\ runs' = Without(run) /\ Encrypted) =>
              /\ encryptedTokens'.some
              /\ TokensOf(encryptedTokens'.val, run.res)
              /\ Len(encryptedTokens'.val) = Len(run.tokens) + 1
              /\ SubSeq(encryptedTokens'.val, 1, Len(run.tokens)) = run.tokens]_vars

\* tokens of a set of the longest length with two different recipient ids are
\* on display
C6_Witness ==
    /\ encryptedTokens.some
    /\ assignments.some
    /\ Len(encryptedTokens.val) = MaxParticipants
    /\ TokensOf(encryptedTokens.val, assignments.val)
    /\ \E i, j \in 1..Len(encryptedTokens.val) :
          TokenSource(encryptedTokens.val[i]) # TokenSource(encryptedTokens.val[j])

\* C7: a step in which key generation or an encryption fails ends that run,
\* leaves encryptedTokens, assignments and verification as they were, and
\* sets the error to the token-generation-failed message.
C7_FailureAborts ==
    [][(KeyGenFailed \/ EncryptFailed) =>
          /\ encryptedTokens' = encryptedTokens
          /\ assignments' = assignments
          /\ verification' = verification
          /\ error' = ErrTokens
          /\ BagCardinality(runs') = BagCardinality(runs) - 1]_vars

\* a run has failed and no run is left: the error is set, nothing is published
C7_Witness ==
    /\ error = ErrTokens
    /\ assignments.some
    /\ verification.some
    /\ ~encryptedTokens.some
    /\ runs = EmptyBag

\* the two ways a token-generation run starts
StartsRun ==
    \/ HandleAssign /\ Len(participants) >= 2
    \/ ToggleTokens /\ ~encryptedTokens.some

\* C8: without Web Crypto, a step that starts a token-generation run
\* publishes the verification of the assignment set it was given, leaves
\* encryptedTokens null, sets no error, suspends nothing, and (started from
\* the toggle button) leaves the assignments as they were.
C8_NoCryptoDegrades ==
    [][(~cryptoAvailable /\ StartsRun) =>
          /\ assignments'.some
          /\ verification' = Some(Verify(assignments'.val, participants))
          /\ ~encryptedTokens'.some
          /\ error' \in {Null, error}
          /\ runs' = runs
          /\ ToggleTokens => assignments' = assignments]_vars

\* without Web Crypto a verification is on display with no tokens and no error
C8_Witness ==
    /\ ~cryptoAvailable
    /\ assignments.some
    /\ verification.some
    /\ verification.val.derangement
    /\ ~encryptedTokens.some
    /\ error = Null

\* C9: whenever assignments and encryptedTokens are both present, the tokens
\* are those of the assignment set held, index by index.
C9_TokensMatchAssignments ==
    (assignments.some /\ encryptedTokens.some) =>
        TokensOf(encryptedTokens.val, assignments.val)

\* the givers of the body sendEmails posts are the participants, in order
AssignmentsCurrent ==
    assignments.some =>
        LET body == RequestBody(assignments).assignments
        IN  /\ Len(body) = Len(participants)
            /\ \A i \in 1..Len(body) : body[i].giver = participants[i]

\* C10: whenever assignments is present its givers are the current
\* participants in order (so is the body sendEmails posts); every successful
\* add and every remove clears assignments; Assign Santas with fewer than 2
\* participants sets its error and leaves assignments unchanged.
C10_AssignmentsCurrent ==
    /\ AssignmentsCurrent
    /\ [][/\ AssignmentsCurrent'
          /\ (participants' # participants /\ (AddParticipant \/ RemoveParticipant)) =>
                ~assignments'.some
          /\ (Len(participants) < 2 /\ HandleAssign) =>
                (error' = ErrAtLeastTwo /\ assignments' = assignments)]_vars

\* assignments for the longest participant list have been posted
C10_Witness ==
    /\ assignments.some
    /\ Len(participants) = MaxParticipants
    /\ Len(assignments.val) = MaxParticipants
    /\ posted # <<>>

====
